---- MODULE Spec2Model ----
(***************************************************************************)
(* A model of the TvOverlay Home Assistant integration:                    *)
(*   - api.py       TvOverlayApiClient (_request and its seven wrappers)   *)
(*   - __init__.py  config-entry setup/unload, the three services and the  *)
(*                  per-entry fixed-notification-ID registry               *)
(* Python strings that the code takes apart (hosts, names, device ids,     *)
(* URLs, messages) are sequences of one-character strings; a literal that  *)
(* is never taken apart is a single element of such a sequence.            *)
(***************************************************************************)
EXTENDS Integers, Sequences, FiniteSets, TLC

\* ------------------------------------------------------------------ bounds

\* Number of distinct non-empty notification IDs the service calls draw from.
MaxIds == 2

\* The most service handlers suspended at once.
MaxTasks == 2

AllIds == <<"a", "b", "c", "d">>

Ids == {AllIds[i] : i \in 1..MaxIds}

\* ----------------------------------------------------------------- strings

DigitChars == <<"0", "1", "2", "3", "4", "5", "6", "7", "8", "9">>

IsDigit(ch) == \E d \in 1..10 : DigitChars[d] = ch

DigitVal(ch) == (CHOOSE d \in 1..10 : DigitChars[d] = ch) - 1

RECURSIVE DigitsToInt(_)
DigitsToInt(s) ==
    IF s = <<>> THEN 0
    ELSE 10 * DigitsToInt(SubSeq(s, 1, Len(s) - 1)) + DigitVal(s[Len(s)])

\* Python int(s) on a string of letters, digits and colons: a ValueError
\* unless s is a non-empty run of digits.
ParseInt(s) ==
    IF s # <<>> /\ \A i \in 1..Len(s) : IsDigit(s[i])
    THEN [ok |-> TRUE, value |-> DigitsToInt(s)]
    ELSE [ok |-> FALSE, value |-> 0]

\* Python str(n) / f"{n}" of a non-negative integer.
RECURSIVE IntToStr(_)
IntToStr(n) ==
    IF n < 10 THEN <<DigitChars[n + 1]>>
    ELSE IntToStr(n \div 10) \o <<DigitChars[(n % 10) + 1]>>

\* Python `needle in haystack` on strings.
Contains(haystack, needle) ==
    \E i \in 0..(Len(haystack) - Len(needle)) :
        SubSeq(haystack, i + 1, i + Len(needle)) = needle

\* A Python dict is a function from its keys; {} is the empty function.
EmptyDict == [k \in {} |-> k]

\* ------------------------------------------------------------ Python values

\* A value of a service call's data or of a payload, tagged with its type.
PyNone == [t |-> "none"]

PyStr(s) == [t |-> "str", v |-> s]

PyInt(n) == [t |-> "int", v |-> n]

PyBool(b) == [t |-> "bool", v |-> b]

\* Python truthiness: `if x:`
Truthy(x) ==
    IF x.t = "none" THEN FALSE
    ELSE IF x.t = "str" THEN x.v # <<>>
    ELSE IF x.t = "int" THEN x.v # 0
    ELSE x.v

\* dict.get(key)
Get(d, key) == IF key \in DOMAIN d THEN d[key] ELSE PyNone

\* `payload[key] = value` on a dict
Put(d, key, value) ==
    [k \in DOMAIN d \cup {key} |-> IF k = key THEN value ELSE d[k]]

\* ------------------------------------------------------- const.py symbols

ENDPOINT_NOTIFY == <<"/notify">>

ENDPOINT_NOTIFY_FIXED == <<"/notify-fixed">>

ENDPOINT_SET_OVERLAY == <<"/set-overlay">>

ENDPOINT_SET_NOTIFICATIONS == <<"/set-notifications">>

ENDPOINT_SET_SETTINGS == <<"/set-settings">>

DEFAULT_PORT == 5001

DOMAIN_NAME == "tvoverlay_ui"

\* -------------------------------------------------------------------- state

VARIABLES
    hassData,      \* hass.data[DOMAIN]: the loaded entries' entry_data, in insertion order
    store,         \* the persisted {"ids": [...]} of each entry's Store
    services,      \* the services registered under the integration's domain
    created,       \* history: per entry, the IDs whose last successful operation was a create
    sharedClosed,  \* whether the shared aiohttp session is closed
    openScoped,    \* scoped sessions opened by _request and not yet released
    last,          \* what the last handler did (its outcome as its caller sees it)
    cc,            \* the last direct client call and what it did
    fn,            \* a call of one of the pure helpers: its arguments and, once made, its result
    tasks,         \* the service handlers suspended at an await, in the order they started
    entity         \* a platform entity of a loaded entry: its description and its reported state

vars ==
    <<hassData, store, services, created, sharedClosed, openScoped, last, cc,
      fn, tasks, entity>>

\* ------------------------------------------------------------ api.py client

NoExc == [type |-> "none", msg |-> <<>>]

\* TvOverlayApiClient.__init__: host, port and the optional session. `obj` is
\* the object's identity (what Python's `is` compares).
NewClient(host, port, session, obj) ==
    [host |-> host, port |-> port, session |-> session, obj |-> obj]

\* self._base_url, which __init__ computes once from the host and the port
\* (neither changes afterwards): f"http://{host}:{port}"
BaseUrl(c) == <<"http://">> \o c.host \o <<":">> \o IntToStr(c.port)

\* What the network can do to one POST: the post itself times out, fails at
\* transport level, or yields a response with a status; a non-200 response's
\* body is then read for the log line, and that read (await response.text())
\* can itself time out, fail at transport level, or fail in decoding.
Statuses == {200, 201, 500}

BodyReads == {"ok", "timeout", "client_error", "decode_error"}

NetOutcomes ==
    {[post |-> p, status |-> 0, body |-> "unread"] : p \in {"timeout", "client_error"}}
    \cup {[post |-> "response", status |-> 200, body |-> "unread"]}
    \cup {[post |-> "response", status |-> s, body |-> b] :
            s \in Statuses \ {200}, b \in BodyReads}

TimeoutError(c) ==
    [type |-> "TvOverlayConnectionError",
     msg |-> <<"Timeout connecting to TvOverlay at ">> \o c.host \o <<":">>
             \o IntToStr(c.port)]

ClientError(c) ==
    [type |-> "TvOverlayConnectionError",
     msg |-> <<"Error connecting to TvOverlay at ">> \o c.host \o <<":">>
             \o IntToStr(c.port) \o <<": ">> \o <<"{err}">>]

\* An exception of the body read that neither except clause of _request names.
DecodeError == [type |-> "UnicodeDecodeError", msg |-> <<"codec can't decode">>]

\* `data or {}`
DataOrEmpty(data) == IF DOMAIN data = {} THEN EmptyDict ELSE data

\* `self._session is None or self._session.closed`: the scoped-session branch
\* of _request; the shared session is used otherwise.
UsesScoped(c) == c.session = "none" \/ sharedClosed

\* `response.status == 200`
StatusOk(status) == status = 200

\* The except clauses of _request: asyncio.TimeoutError and aiohttp.ClientError
\* become TvOverlayConnectionError; anything else propagates as it is.
Translate(c, raised) ==
    IF raised = "timeout" THEN TimeoutError(c)
    ELSE IF raised = "client_error" THEN ClientError(c)
    ELSE DecodeError

\* What one `async with session.post(url, json=...) as response:` block ends
\* with: True on status 200; otherwise the body is read for the error log and
\* False is returned, unless the post or that read raises.
PostOutcome(c, net) ==
    IF net.post # "response" THEN [ret |-> "raise", exc |-> Translate(c, net.post)]
    ELSE IF StatusOk(net.status) THEN [ret |-> "true", exc |-> NoExc]
    ELSE IF net.body = "ok" THEN [ret |-> "false", exc |-> NoExc]
    ELSE [ret |-> "raise", exc |-> Translate(c, net.body)]

\* ScopedReleased as it would be if the scoped session were closed by hand
\* before each return instead of by `async with`: an exception skips it.
ScopedReleasedOnReturn(out) == IF out.ret = "raise" THEN 0 ELSE 1

\* Scoped sessions released when the `async with aiohttp.ClientSession(...)`
\* block is left: the one opened, on every exit, by return or by exception.
ScopedReleased(out) == 1

\* The scoped-session branch: a ClientSession for this one call.
ScopedRequest(c, url, json, net) ==
    LET out == PostOutcome(c, net)
    IN  [ret |-> out.ret, exc |-> out.exc, req |-> out,
         posts |-> <<[url |-> url, json |-> json, via |-> "scoped"]>>,
         opened |-> 1, released |-> ScopedReleased(out), closedShared |-> FALSE]

\* SharedRequest with a retry: a POST that fails is sent a second time.
SharedRequestRetrying(c, url, json, net) ==
    LET out == PostOutcome(c, net)
        post == [url |-> url, json |-> json, via |-> "shared"]
    IN  [ret |-> out.ret, exc |-> out.exc, req |-> out,
         posts |-> IF out.ret = "true" THEN <<post>> ELSE <<post, post>>,
         opened |-> 0, released |-> 0, closedShared |-> FALSE]

\* The shared-session branch: the POST goes out on self._session, which
\* _request neither opens nor closes.
SharedRequest(c, url, json, net) ==
    LET out == PostOutcome(c, net)
    IN  [ret |-> out.ret, exc |-> out.exc, req |-> out,
         posts |-> <<[url |-> url, json |-> json, via |-> "shared"]>>,
         opened |-> 0, released |-> 0, closedShared |-> FALSE]

\* TvOverlayApiClient._request: one POST of `data or {}` to base_url + endpoint.
\*   ret, exc      the boolean returned, or the exception raised
\*   req           the same two, kept as _request ended when a caller of
\*                 _request turns the outcome into another one
\*   posts         the POSTs issued, each with its URL, JSON body and session
\*   opened        scoped sessions opened; released: scoped sessions released
\*   closedShared  whether the call closed the shared session
Request(c, endpoint, data, net) ==
    LET url == BaseUrl(c) \o endpoint
    IN  IF UsesScoped(c)
        THEN ScopedRequest(c, url, DataOrEmpty(data), net)
        ELSE SharedRequest(c, url, DataOrEmpty(data), net)

\* test_connection: an empty notify request; a connection error is a failure.
TestConnection(c, net) ==
    LET r == Request(c, ENDPOINT_NOTIFY, EmptyDict, net)
    IN  IF r.ret = "raise" /\ r.exc.type = "TvOverlayConnectionError"
        THEN [r EXCEPT !.ret = "false", !.exc = NoExc]
        ELSE r

SendNotification(c, data, net) == Request(c, ENDPOINT_NOTIFY, data, net)

SendFixedNotification(c, data, net) == Request(c, ENDPOINT_NOTIFY_FIXED, data, net)

\* clear_fixed_notification without `"visible": False` in the body.
ClearFixedNotificationIdOnly(c, notification_id, net) ==
    Request(c, ENDPOINT_NOTIFY_FIXED, [id |-> notification_id], net)

ClearFixedNotification(c, notification_id, net) ==
    Request(c, ENDPOINT_NOTIFY_FIXED, [id |-> notification_id, visible |-> PyBool(FALSE)], net)

SetOverlay(c, data, net) == Request(c, ENDPOINT_SET_OVERLAY, data, net)

SetNotifications(c, data, net) == Request(c, ENDPOINT_SET_NOTIFICATIONS, data, net)

SetSettings(c, data, net) == Request(c, ENDPOINT_SET_SETTINGS, data, net)

LowerChars ==
    <<"a", "b", "c", "d", "e", "f", "g", "h", "i", "j", "k", "l", "m",
      "n", "o", "p", "q", "r", "s", "t", "u", "v", "w", "x", "y", "z">>

UpperChars ==
    <<"A", "B", "C", "D", "E", "F", "G", "H", "I", "J", "K", "L", "M",
      "N", "O", "P", "Q", "R", "S", "T", "U", "V", "W", "X", "Y", "Z">>

ToLower(ch) ==
    IF \E i \in 1..26 : UpperChars[i] = ch
    THEN LowerChars[CHOOSE i \in 1..26 : UpperChars[i] = ch]
    ELSE ch

ToUpper(ch) ==
    IF \E i \in 1..26 : LowerChars[i] = ch
    THEN UpperChars[CHOOSE i \in 1..26 : LowerChars[i] = ch]
    ELSE ch

\* str.lower(), str.upper()
Lower(s) == [i \in 1..Len(s) |-> ToLower(s[i])]

Upper(s) == [i \in 1..Len(s) |-> ToUpper(s[i])]

IsSpace(ch) == ch \in {" ", "\t", "\n", "\r"}

\* str.strip(): leading and trailing whitespace removed.
RECURSIVE Strip(_)
Strip(s) ==
    IF s = <<>> THEN s
    ELSE IF IsSpace(s[1]) THEN Strip(Tail(s))
    ELSE IF IsSpace(s[Len(s)]) THEN Strip(SubSeq(s, 1, Len(s) - 1))
    ELSE s

\* str.lstrip("#"): every leading '#' removed.
RECURSIVE LStripHash(_)
LStripHash(s) ==
    IF s # <<>> /\ s[1] = "#" THEN LStripHash(Tail(s)) ELSE s

HexChars ==
    <<"0", "1", "2", "3", "4", "5", "6", "7", "8", "9", "A", "B", "C", "D", "E", "F">>

\* f"{n:02X}": uppercase hex, zero-padded to at least two digits.
RECURSIVE HexDigits(_)
HexDigits(n) ==
    IF n < 16 THEN <<HexChars[n + 1]>>
    ELSE HexDigits(n \div 16) \o <<HexChars[(n % 16) + 1]>>

Hex02X(n) == IF n < 16 THEN <<"0">> \o HexDigits(n) ELSE HexDigits(n)

\* ------------------------------------------------- __init__.py: the colors

\* COLOR_NAMES, as <<name, hex>> pairs
COLOR_NAMES ==
    {  <<<<"r", "e", "d">>, <<"#", "F", "F", "0", "0", "0", "0">>>>,
       <<<<"g", "r", "e", "e", "n">>, <<"#", "0", "0", "F", "F", "0", "0">>>>,
       <<<<"b", "l", "u", "e">>, <<"#", "0", "0", "0", "0", "F", "F">>>>,
       <<<<"w", "h", "i", "t", "e">>, <<"#", "F", "F", "F", "F", "F", "F">>>>,
       <<<<"b", "l", "a", "c", "k">>, <<"#", "0", "0", "0", "0", "0", "0">>>>,
       <<<<"y", "e", "l", "l", "o", "w">>, <<"#", "F", "F", "F", "F", "0", "0">>>>,
       <<<<"o", "r", "a", "n", "g", "e">>, <<"#", "F", "F", "A", "5", "0", "0">>>>,
       <<<<"p", "u", "r", "p", "l", "e">>, <<"#", "8", "0", "0", "0", "8", "0">>>>,
       <<<<"p", "i", "n", "k">>, <<"#", "F", "F", "C", "0", "C", "B">>>>,
       <<<<"c", "y", "a", "n">>, <<"#", "0", "0", "F", "F", "F", "F">>>>,
       <<<<"m", "a", "g", "e", "n", "t", "a">>, <<"#", "F", "F", "0", "0", "F", "F">>>>,
       <<<<"g", "r", "a", "y">>, <<"#", "8", "0", "8", "0", "8", "0">>>>,
       <<<<"g", "r", "e", "y">>, <<"#", "8", "0", "8", "0", "8", "0">>>>,
       <<<<"b", "r", "o", "w", "n">>, <<"#", "A", "5", "2", "A", "2", "A">>>>,
       <<<<"l", "i", "m", "e">>, <<"#", "0", "0", "F", "F", "0", "0">>>>,
       <<<<"n", "a", "v", "y">>, <<"#", "0", "0", "0", "0", "8", "0">>>>,
       <<<<"t", "e", "a", "l">>, <<"#", "0", "0", "8", "0", "8", "0">>>>,
       <<<<"m", "a", "r", "o", "o", "n">>, <<"#", "8", "0", "0", "0", "0", "0">>>>,
       <<<<"o", "l", "i", "v", "e">>, <<"#", "8", "0", "8", "0", "0", "0">>>>,
       <<<<"s", "i", "l", "v", "e", "r">>, <<"#", "C", "0", "C", "0", "C", "0">>>>,
       <<<<"a", "q", "u", "a">>, <<"#", "0", "0", "F", "F", "F", "F">>>>,
       <<<<"g", "o", "l", "d">>, <<"#", "F", "F", "D", "7", "0", "0">>>>,
       <<<<"c", "o", "r", "a", "l">>, <<"#", "F", "F", "7", "F", "5", "0">>>>,
       <<<<"s", "a", "l", "m", "o", "n">>, <<"#", "F", "A", "8", "0", "7", "2">>>>,
       <<<<"v", "i", "o", "l", "e", "t">>, <<"#", "E", "E", "8", "2", "E", "E">>>>,
       <<<<"i", "n", "d", "i", "g", "o">>, <<"#", "4", "B", "0", "0", "8", "2">>>>,
       <<<<"t", "u", "r", "q", "u", "o", "i", "s", "e">>, <<"#", "4", "0", "E", "0", "D", "0">>>> }

IsColorName(s) == \E p \in COLOR_NAMES : p[1] = s

ColorOfName(s) == (CHOOSE p \in COLOR_NAMES : p[1] = s)[2]

\* _normalize_hex_color without the final .upper()
NormalizeHexColorNoUpper(color) ==
    IF color.t = "none" \/ ~Truthy(color) THEN PyNone
    ELSE LET c == Lower(Strip(color.v))
         IN  IF IsColorName(c) THEN PyStr(ColorOfName(c))
             ELSE IF ~(c # <<>> /\ c[1] = "#") THEN PyStr(<<"#">> \o c)
             ELSE PyStr(c)

\* _normalize_hex_color without .lower(): the names are looked up as typed.
NormalizeHexColorCaseSensitive(color) ==
    IF color.t = "none" \/ ~Truthy(color) THEN PyNone
    ELSE LET c == Strip(color.v)
         IN  IF IsColorName(c) THEN PyStr(ColorOfName(c))
             ELSE IF ~(c # <<>> /\ c[1] = "#") THEN PyStr(Upper(<<"#">> \o c))
             ELSE PyStr(Upper(c))

\* _normalize_hex_color: None for None or "", the table's value for a name,
\* otherwise the stripped string prefixed with '#' and uppercased.
NormalizeHexColor(color) ==
    IF color.t = "none" \/ ~Truthy(color) THEN PyNone
    ELSE LET c == Lower(Strip(color.v))
         IN  IF IsColorName(c) THEN PyStr(ColorOfName(c))
             ELSE IF ~(c # <<>> /\ c[1] = "#") THEN PyStr(Upper(<<"#">> \o c))
             ELSE PyStr(Upper(c))

\* Python's round(n / d) for n >= 0, d > 0: to the nearest integer, a tie to
\* the even one.
RoundHalfEven(n, d) ==
    LET q == n \div d
        r == n % d
    IN  IF 2 * r < d THEN q
        ELSE IF 2 * r > d THEN q + 1
        ELSE IF q % 2 = 0 THEN q ELSE q + 1

\* The opacity _hex_with_alpha uses when none is given.
DefaultOpacity == 40

\* _hex_with_alpha with round(opacity * 255 / 100) in place of int(...)
HexWithAlphaRounded(color, opacity) ==
    IF color.t = "none" \/ ~Truthy(color) THEN PyNone
    ELSE LET n == NormalizeHexColor(color)
         IN  IF n.t = "none" THEN PyNone
             ELSE LET rgb == LStripHash(n.v)
                  IN  IF Len(rgb) = 6
                      THEN LET alpha == RoundHalfEven(
                                            (IF opacity.t # "none" THEN opacity.v
                                             ELSE DefaultOpacity) * 255, 100)
                           IN  PyStr(<<"#">> \o Hex02X(alpha) \o rgb)
                      ELSE n

\* _hex_with_alpha: #RRGGBB -> #AARRGGBB, alpha = int(opacity * 255 / 100).
HexWithAlpha(color, opacity) ==
    IF color.t = "none" \/ ~Truthy(color) THEN PyNone
    ELSE LET n == NormalizeHexColor(color)
         IN  IF n.t = "none" THEN PyNone
             ELSE LET rgb == LStripHash(n.v)
                  IN  IF Len(rgb) = 6
                      THEN LET alpha == ((IF opacity.t # "none" THEN opacity.v
                                          ELSE DefaultOpacity) * 255) \div 100
                           IN  PyStr(<<"#">> \o Hex02X(alpha) \o rgb)
                      ELSE n

\* ------------------------------------------- __init__.py: payload builders

\* The simple-fields loop without `and data[attr] is not None`.
RECURSIVE CopySimpleFieldsWithNull(_, _, _)
CopySimpleFieldsWithNull(fields, data, payload) ==
    IF fields = <<>> THEN payload
    ELSE LET attr == fields[1][1]
             api_key == fields[1][2]
             next == IF attr \in DOMAIN data
                     THEN Put(payload, api_key, data[attr])
                     ELSE payload
         IN  CopySimpleFieldsWithNull(Tail(fields), data, next)

\* `for attr, api_key in simple_fields.items(): if attr in data and
\* data[attr] is not None: payload[api_key] = data[attr]`, over a sequence of
\* <<attr, api_key>> pairs.
RECURSIVE CopySimpleFields(_, _, _)
CopySimpleFields(fields, data, payload) ==
    IF fields = <<>> THEN payload
    ELSE LET attr == fields[1][1]
             api_key == fields[1][2]
             next == IF attr \in DOMAIN data /\ data[attr].t # "none"
                     THEN Put(payload, api_key, data[attr])
                     ELSE payload
         IN  CopySimpleFields(Tail(fields), data, next)

\* `if attr in data and data[attr]: payload[api_key] = data[attr]`
CopyIfTruthy(attr, api_key, data, payload) ==
    IF attr \in DOMAIN data /\ Truthy(data[attr])
    THEN Put(payload, api_key, data[attr])
    ELSE payload

\* `value = f(...); if value: payload[api_key] = value`
PutIfTruthy(api_key, value, payload) ==
    IF Truthy(value) THEN Put(payload, api_key, value) ELSE payload

\* _build_notification_data with `else:` in place of `elif media_type ==
\* "video":` and without `media_type != "none"`.
BuildNotificationDataElseVideo(data) ==
    LET p1 == CopySimpleFields(
                  << <<"id", "id">>, <<"title", "title">>, <<"message", "message">>,
                     <<"source", "source">>, <<"corner", "corner">>,
                     <<"duration", "duration">> >>, data, EmptyDict)
        p2 == CopyIfTruthy("small_icon", "smallIcon", data, p1)
        p3 == PutIfTruthy("smallIconColor",
                          NormalizeHexColor(Get(data, "small_icon_color")), p2)
        p4 == CopyIfTruthy("large_icon", "largeIcon", data, p3)
        media_type == Get(data, "media_type")
        media_url == Get(data, "media_url")
    IN  IF Truthy(media_url) /\ Truthy(media_type)
        THEN IF media_type = PyStr(<<"image">>) THEN Put(p4, "image", media_url)
             ELSE Put(p4, "video", media_url)
        ELSE p4

\* _build_notification_data
BuildNotificationData(data) ==
    LET p1 == CopySimpleFields(
                  << <<"id", "id">>, <<"title", "title">>, <<"message", "message">>,
                     <<"source", "source">>, <<"corner", "corner">>,
                     <<"duration", "duration">> >>, data, EmptyDict)
        p2 == CopyIfTruthy("small_icon", "smallIcon", data, p1)
        p3 == PutIfTruthy("smallIconColor",
                          NormalizeHexColor(Get(data, "small_icon_color")), p2)
        p4 == CopyIfTruthy("large_icon", "largeIcon", data, p3)
        media_type == Get(data, "media_type")
        media_url == Get(data, "media_url")
    IN  IF Truthy(media_url) /\ Truthy(media_type) /\ media_type # PyStr(<<"none">>)
        THEN IF media_type = PyStr(<<"image">>) THEN Put(p4, "image", media_url)
             ELSE IF media_type = PyStr(<<"video">>) THEN Put(p4, "video", media_url)
             ELSE p4
        ELSE p4

\* _build_fixed_notification_data with the background color normalized like
\* the other three colors.
BuildFixedNotificationDataPlainBackground(data) ==
    LET p1 == CopySimpleFields(
                  << <<"id", "id">>, <<"visible", "visible">>,
                     <<"message", "message">>, <<"shape", "shape">>,
                     <<"expiration", "expiration">> >>, data, EmptyDict)
        p2 == CopyIfTruthy("icon", "icon", data, p1)
        p3 == PutIfTruthy("messageColor",
                          NormalizeHexColor(Get(data, "message_color")), p2)
        p4 == PutIfTruthy("iconColor",
                          NormalizeHexColor(Get(data, "icon_color")), p3)
        p5 == PutIfTruthy("borderColor",
                          NormalizeHexColor(Get(data, "border_color")), p4)
    IN  PutIfTruthy("backgroundColor",
                    NormalizeHexColor(Get(data, "background_color")), p5)

\* _build_fixed_notification_data
BuildFixedNotificationData(data) ==
    LET p1 == CopySimpleFields(
                  << <<"id", "id">>, <<"visible", "visible">>,
                     <<"message", "message">>, <<"shape", "shape">>,
                     <<"expiration", "expiration">> >>, data, EmptyDict)
        p2 == CopyIfTruthy("icon", "icon", data, p1)
        p3 == PutIfTruthy("messageColor",
                          NormalizeHexColor(Get(data, "message_color")), p2)
        p4 == PutIfTruthy("iconColor",
                          NormalizeHexColor(Get(data, "icon_color")), p3)
        p5 == PutIfTruthy("borderColor",
                          NormalizeHexColor(Get(data, "border_color")), p4)
        bg_color == Get(data, "background_color")
    IN  IF Truthy(bg_color)
        THEN Put(p5, "backgroundColor",
                 HexWithAlpha(bg_color, Get(data, "background_opacity")))
        ELSE p5

\* ------------------------------------------------ __init__.py: environment

\* The config entries the user has created: entry_id -> entry.data. Both
\* keep the config flow's default name, so a name can match two entries.
Entries == {"e1", "e2"}

EntryData(e) ==
    IF e = "e1"
    THEN [host |-> <<"h">>, port |-> DEFAULT_PORT, name |-> <<"n">>]
    ELSE [host |-> <<"g">>, port |-> 7, name |-> <<"n">>]

\* The device registry: device id -> the device's identifiers. Each entry's
\* entities register one device with the identifier (DOMAIN, entry_id).
DeviceKnown(device_id) == device_id \in {<<"d", "1">>, <<"d", "2">>, <<"d", "9">>}

DeviceIdentifiers(device_id) ==
    IF device_id = <<"d", "1">> THEN {<<DOMAIN_NAME, "e1">>}
    ELSE IF device_id = <<"d", "2">> THEN {<<DOMAIN_NAME, "e2">>}
    ELSE {<<"other_domain", "e1">>}

SERVICE_NOTIFY == "notify"

SERVICE_NOTIFY_FIXED == "notify_fixed"

SERVICE_CLEAR_FIXED == "clear_fixed"

\* ---------------------------------------------- __init__.py: the registry

\* What async_setup_entry puts into an entry's entry_data and nothing changes
\* afterwards: the client, the name (the host when entry.data has none), the
\* host and the port. hassData keeps, per loaded entry and in insertion
\* order, the entry_id and the one field that changes, notification_ids.
SetupFields ==
    [e \in Entries |->
        LET host == EntryData(e).host
            port == EntryData(e).port
            name == IF "name" \in DOMAIN EntryData(e) THEN EntryData(e).name ELSE host
        IN  [client |-> NewClient(host, port, "shared", e), name |-> name,
             host |-> host, port |-> port]]

\* hass.data[DOMAIN]'s i-th entry_data
Entry(i) == SetupFields[hassData[i].entry_id]

LoadedEntries == {hassData[i].entry_id : i \in 1..Len(hassData)}

IndexOfEntry(e) == CHOOSE i \in 1..Len(hassData) : hassData[i].entry_id = e

Elements(seq) == {seq[i] : i \in 1..Len(seq)}

Min(S) == CHOOSE m \in S : \A n \in S : m <= n

\* list.remove(x): the first occurrence of x removed.
RECURSIVE RemoveFirst(_, _)
RemoveFirst(seq, x) ==
    IF seq = <<>> THEN seq
    ELSE IF seq[1] = x THEN Tail(seq)
    ELSE <<seq[1]>> \o RemoveFirst(Tail(seq), x)

NoClient == [kind |-> "none"]

Some(c) == [kind |-> "client", client |-> c]

\* _parse_host_port: split at the last ':'; the whole string and the default
\* port when there is no ':' or when what follows it is not an integer.
ParseHostPort(host_string) ==
    IF \E i \in 1..Len(host_string) : host_string[i] = ":"
    THEN LET k == CHOOSE i \in 1..Len(host_string) :
                      /\ host_string[i] = ":"
                      /\ \A j \in (i + 1)..Len(host_string) : host_string[j] # ":"
             port == ParseInt(SubSeq(host_string, k + 1, Len(host_string)))
         IN  IF port.ok
             THEN [host |-> SubSeq(host_string, 1, k - 1), port |-> port.value]
             ELSE [host |-> host_string, port |-> DEFAULT_PORT]
    ELSE [host |-> host_string, port |-> DEFAULT_PORT]

\* _get_client_from_device_id
GetClientFromDeviceId(device_id) ==
    IF ~DeviceKnown(device_id) THEN NoClient
    ELSE LET hits == {ident \in DeviceIdentifiers(device_id) :
                         ident[1] = DOMAIN_NAME /\ ident[2] \in LoadedEntries}
         IN  IF hits = {} THEN NoClient
             ELSE Some(Entry(IndexOfEntry((CHOOSE ident \in hits : TRUE)[2])).client)

\* _get_client_from_name_or_host: the first entry, in hass.data's order, whose
\* name or host is the string.
GetClientFromNameOrHost(name_or_host) ==
    LET hits == {i \in 1..Len(hassData) :
                    \/ Entry(i).name = name_or_host
                    \/ Entry(i).host = name_or_host}
    IN  IF hits = {} THEN NoClient ELSE Some(Entry(Min(hits)).client)

\* The `if host:` half of _get_client: a configured entry's client when host
\* and port both match, else a new client for the unconfigured device.
GetClientFromHost(host) ==
    LET parsed == ParseHostPort(host)
        hits == {i \in 1..Len(hassData) :
                    /\ Entry(i).host = parsed.host
                    /\ Entry(i).port = parsed.port}
    IN  IF hits # {} THEN Some(Entry(Min(hits)).client)
        ELSE Some(NewClient(parsed.host, parsed.port, "shared", "adhoc"))

\* _get_client with the `if host:` block before the `if device_id:` block.
GetClientHostFirst(call_data) ==
    LET device_id == Get(call_data, "device_id")
        host == Get(call_data, "host")
        byId == IF Truthy(device_id) THEN GetClientFromDeviceId(device_id.v)
                ELSE NoClient
        byName == IF Truthy(device_id) /\ byId.kind = "none"
                  THEN GetClientFromNameOrHost(device_id.v)
                  ELSE byId
    IN  IF Truthy(host) THEN GetClientFromHost(host.v)
        ELSE byName

\* _get_client
GetClient(call_data) ==
    LET device_id == Get(call_data, "device_id")
        host == Get(call_data, "host")
        byId == IF Truthy(device_id) THEN GetClientFromDeviceId(device_id.v)
                ELSE NoClient
        byName == IF Truthy(device_id) /\ byId.kind = "none"
                  THEN GetClientFromNameOrHost(device_id.v)
                  ELSE byId
    IN  IF byName.kind = "client" THEN byName
        ELSE IF Truthy(host) THEN GetClientFromHost(host.v)
        ELSE NoClient

\* _get_entry_data_from_client returning the first entry's data whatever the
\* client is.
GetEntryDataFromClientFirstEntry(client) ==
    IF hassData = <<>> THEN 0 ELSE 1

\* _get_entry_data_from_client: the index in hass.data of the entry whose
\* client is this very object, 0 for None.
GetEntryDataFromClient(client) ==
    LET hits == {i \in 1..Len(hassData) : Entry(i).client.obj = client.obj}
    IN  IF hits = {} THEN 0 ELSE Min(hits)

\* Store.async_save({"ids": ids})
AsyncSave(st, e, ids) == [st EXCEPT ![e] = [has |-> TRUE, ids |-> ids]]

\* _add_notification_id without the save: the list grows in memory only.
AddNotificationIdUnsaved(i, notification_id) ==
    LET ids == hassData[i].notification_ids
        new == Append(ids, notification_id)
    IN  IF notification_id \notin Elements(ids)
        THEN [data |-> [hassData EXCEPT ![i].notification_ids = new],
              store |-> store, saved |-> FALSE, notified |-> TRUE]
        ELSE [data |-> hassData, store |-> store,
              saved |-> FALSE, notified |-> FALSE]

\* _add_notification_id without `if notification_id not in ids`.
AddNotificationIdUnchecked(i, notification_id) ==
    LET ids == hassData[i].notification_ids
        new == Append(ids, notification_id)
    IN  [data |-> [hassData EXCEPT ![i].notification_ids = new],
         store |-> AsyncSave(store, hassData[i].entry_id, new),
         saved |-> TRUE, notified |-> TRUE]

\* _add_notification_id on hass.data's i-th entry: what hass.data and the
\* stores are afterwards, whether it saved, whether it ran the listeners.
AddNotificationId(i, notification_id) ==
    LET ids == hassData[i].notification_ids
        new == Append(ids, notification_id)
    IN  IF notification_id \notin Elements(ids)
        THEN [data |-> [hassData EXCEPT ![i].notification_ids = new],
              store |-> AsyncSave(store, hassData[i].entry_id, new),
              saved |-> TRUE, notified |-> TRUE]
        ELSE [data |-> hassData, store |-> store,
              saved |-> FALSE, notified |-> FALSE]

\* _remove_notification_id on hass.data's i-th entry
RemoveNotificationId(i, notification_id) ==
    LET ids == hassData[i].notification_ids
        new == RemoveFirst(ids, notification_id)
    IN  IF notification_id \in Elements(ids)
        THEN [data |-> [hassData EXCEPT ![i].notification_ids = new],
              store |-> AsyncSave(store, hassData[i].entry_id, new),
              saved |-> TRUE, notified |-> TRUE]
        ELSE [data |-> hassData, store |-> store,
              saved |-> FALSE, notified |-> FALSE]

\* Nothing touched: the registries and stores as they are.
Untouched ==
    [data |-> hassData, store |-> store, saved |-> FALSE, notified |-> FALSE]

\* ------------------------------------------------------ inputs of the calls

\* dict union, g's keys winning
Merge(f, g) ==
    [k \in DOMAIN f \cup DOMAIN g |-> IF k \in DOMAIN g THEN g[k] ELSE f[k]]

IdValues == {PyStr(<<x>>) : x \in Ids}

\* The device_id / host fields of a service call (the schemas want at least
\* one of the two keys): e1's device with an empty host (nothing while e1 is
\* not loaded), the name both entries carry, and e2 by host:port (an
\* unconfigured host while e2 is not loaded).
Targets ==
    { [device_id |-> PyStr(<<"d", "1">>), host |-> PyStr(<<>>)],
      [device_id |-> PyStr(<<"n">>)],
      [host |-> PyStr(<<"g", ":", "7">>)] }

\* What the handlers of Spec see of the network: a 200, a non-200 whose body
\* is read, a timeout and a transport failure.
HandlerNets ==
    { [post |-> "response", status |-> 200, body |-> "unread"],
      [post |-> "response", status |-> 500, body |-> "ok"],
      [post |-> "timeout", status |-> 0, body |-> "unread"],
      [post |-> "client_error", status |-> 0, body |-> "unread"] }

\* notify: NOTIFY_SCHEMA, every field optional
NotifyCalls == {Merge(t, [title |-> PyStr(<<"H", "i">>)]) : t \in Targets}

\* notify_fixed: NOTIFY_FIXED_SCHEMA, id optional, visible defaulting to True
NotifyFixedCalls ==
    {Merge(Merge(t, x), [visible |-> PyBool(TRUE)]) :
        t \in Targets,
        x \in {EmptyDict} \cup {[id |-> i] : i \in IdValues \cup {PyStr(<<>>)}}}

\* clear_fixed: CLEAR_FIXED_SCHEMA, id required
ClearFixedCalls == {Merge(t, [id |-> i]) : t \in Targets, i \in IdValues}

\* The payload builders are pure: their results for the calls above, tabulated.
NotificationDataOf == [call \in NotifyCalls |-> BuildNotificationData(call)]

FixedNotificationDataOf ==
    [call \in NotifyFixedCalls |-> BuildFixedNotificationData(call)]

\* ------------------------------------------------------------------ actions

\* What the last handler did. target: what the call resolved to ("none",
\* "adhoc" for a client of an unconfigured host, "entry" for a loaded entry's
\* client); had: whether the call's id was in the resolved entry's registry
\* when the handler started; raised: the exception _request ended with
\* inside the handler; exc: the exception the handler's caller gets.
Idle ==
    [op |-> "idle", target |-> "n/a", had |-> FALSE, ret |-> "n/a",
     exc |-> "none", raised |-> "none", nposts |-> 0, saved |-> FALSE,
     notified |-> FALSE]

\* What the last direct client call did. closedBefore: whether the shared
\* session was closed when the call started; the rest is what the client
\* method returned (see Request).
IdleCall ==
    [method |-> "idle", client |-> NewClient(<<>>, 0, "none", "n/a"),
     closedBefore |-> FALSE, arg |-> EmptyDict,
     net |-> [post |-> "none", status |-> 0, body |-> "unread"],
     ret |-> "n/a", exc |-> NoExc, req |-> [ret |-> "n/a", exc |-> NoExc],
     posts |-> <<>>, opened |-> 0, released |-> 0, closedShared |-> FALSE]

\* No entity under observation.
NoEntity ==
    [kind |-> "none", key |-> "none", api_key |-> PyNone, endpoint |-> PyNone,
     state |-> PyNone, stored |-> PyNone, asked |-> PyNone]

\* No pure helper called.
IdleFn == [name |-> "idle", args |-> <<>>, done |-> TRUE, result |-> PyNone]

\* A handler that raises, instead of returning, when no client is resolved.
NoRequestRaising ==
    [ret |-> "raise", exc |-> [type |-> "HomeAssistantError", msg |-> <<>>],
     req |-> [ret |-> "n/a", exc |-> NoExc],
     posts |-> <<>>, opened |-> 0, released |-> 0, closedShared |-> FALSE]

\* A handler that sent no request.
NoRequest ==
    [ret |-> "n/a", exc |-> NoExc, req |-> [ret |-> "n/a", exc |-> NoExc],
     posts |-> <<>>,
     opened |-> 0, released |-> 0, closedShared |-> FALSE]

Init ==
    /\ hassData = <<>>
    /\ store = [e \in Entries |-> [has |-> FALSE, ids |-> <<>>]]
    /\ services = {}
    /\ created = [e \in Entries |-> {}]
    /\ sharedClosed = FALSE
    /\ openScoped = 0
    /\ last = Idle
    /\ cc = IdleCall
    /\ fn = IdleFn
    /\ tasks = <<>>
    /\ entity = NoEntity

\* _async_register_services registering notify alone.
RegisterServicesNotifyOnly(registered) ==
    registered \cup {SERVICE_NOTIFY}

\* _async_register_services: the three services, registered together.
RegisterServices(registered) ==
    registered \cup {SERVICE_NOTIFY, SERVICE_NOTIFY_FIXED, SERVICE_CLEAR_FIXED}

\* async_setup_entry
SetupEntry(e) ==
    /\ e \notin LoadedEntries
    /\ LET notification_ids == IF store[e].has THEN store[e].ids ELSE <<>>
       IN  hassData' = Append(hassData, [entry_id |-> e,
                                         notification_ids |-> notification_ids])
    /\ services' = IF SERVICE_NOTIFY \notin services
                   THEN RegisterServices(services)
                   ELSE services
    /\ last' = [Idle EXCEPT !.op = "setup", !.ret = "true"]
    /\ UNCHANGED <<store, created, sharedClosed, openScoped, cc, fn, tasks, entity>>

\* hass.data[DOMAIN].pop(entry_id)
PopEntry(e) ==
    SubSeq(hassData, 1, IndexOfEntry(e) - 1)
        \o SubSeq(hassData, IndexOfEntry(e) + 1, Len(hassData))

\* async_unload_entry; unload_ok is what async_unload_platforms returned.
UnloadEntry(e, unload_ok) ==
    /\ e \in LoadedEntries
    /\ IF unload_ok
       THEN /\ hassData' = PopEntry(e)
            /\ services' = IF PopEntry(e) = <<>>
                           THEN services \ {SERVICE_NOTIFY, SERVICE_NOTIFY_FIXED,
                                            SERVICE_CLEAR_FIXED}
                           ELSE services
       ELSE UNCHANGED <<hassData, services, entity>>
    /\ last' = [Idle EXCEPT !.op = "unload",
                            !.ret = IF unload_ok THEN "true" ELSE "false"]
    /\ UNCHANGED <<store, created, sharedClosed, openScoped, cc, fn, tasks, entity>>

\* What a resolved client is to the registry.
TargetKind(client) == IF client.obj \in Entries THEN "entry" ELSE client.obj

\* Whether `id` is in the registry of the entry that owns `client`.
InRegistryOf(client, id) ==
    /\ client.obj \in LoadedEntries
    /\ id \in Elements(hassData[IndexOfEntry(client.obj)].notification_ids)

\* The end of a handler: the request's effect on the sessions, the registry
\* effect, and what the handler's caller sees.
Finish(op, target, had, r, eff) ==
    /\ hassData' = eff.data
    /\ store' = eff.store
    /\ openScoped' = openScoped + r.opened - r.released
    /\ sharedClosed' = (sharedClosed \/ r.closedShared)
    /\ last' = [op |-> op, target |-> target, had |-> had, ret |-> r.ret,
                exc |-> r.exc.type, raised |-> r.req.exc.type,
                nposts |-> Len(r.posts),
                saved |-> eff.saved, notified |-> eff.notified]
    /\ UNCHANGED <<services, cc, fn, tasks, entity>>

\* async_notify
Notify(call, net) ==
    /\ SERVICE_NOTIFY \in services
    /\ \E found \in {GetClient(call)} :
           IF found.kind = "none"
           THEN Finish("notify", "none", FALSE, NoRequest, Untouched)
           ELSE \E r \in {SendNotification(found.client,
                                           NotificationDataOf[call], net)} :
                    Finish("notify", TargetKind(found.client), FALSE, r, Untouched)
    /\ UNCHANGED created

\* NotifyFixedEffect without `success` in the condition: the id is stored
\* whatever send_fixed_notification returned.
NotifyFixedEffectAnyResult(client, data, success) ==
    LET i == GetEntryDataFromClient(client)
    IN  IF Truthy(Get(data, "id")) /\ i # 0
        THEN AddNotificationId(i, data["id"])
        ELSE Untouched

\* The end of async_notify_fixed, once send_fixed_notification has returned:
\* the id is stored if the call succeeded, an id was provided and the client
\* is a loaded entry's.
NotifyFixedEffect(client, data, success) ==
    LET i == GetEntryDataFromClient(client)
    IN  IF success /\ Truthy(Get(data, "id")) /\ i # 0
        THEN AddNotificationId(i, data["id"])
        ELSE Untouched

\* ClearFixedEffect without `if success`: the id is removed whatever
\* clear_fixed_notification returned.
ClearFixedEffectAnyResult(client, notification_id, success) ==
    LET i == GetEntryDataFromClient(client)
    IN  IF i # 0
        THEN RemoveNotificationId(i, notification_id)
        ELSE Untouched

\* The end of async_clear_fixed, once clear_fixed_notification has returned:
\* the id is removed if the call succeeded and the client is a loaded entry's.
ClearFixedEffect(client, notification_id, success) ==
    LET i == GetEntryDataFromClient(client)
    IN  IF success /\ i # 0
        THEN RemoveNotificationId(i, notification_id)
        ELSE Untouched

\* async_notify_fixed with the client call in a try block whose except clause
\* logs the error and goes on as after a failed request.
NotifyFixedSwallowing(call, net) ==
    /\ SERVICE_NOTIFY_FIXED \in services
    /\ \E found \in {GetClient(call)} :
           IF found.kind = "none"
           THEN Finish("notify_fixed", "none", FALSE, NoRequest, Untouched)
           ELSE \E data \in {FixedNotificationDataOf[call]} :
                \E r \in {SendFixedNotification(found.client, data, net)} :
                \E shown \in {IF r.ret = "raise"
                               THEN [r EXCEPT !.ret = "false", !.exc = NoExc]
                               ELSE r} :
                    Finish("notify_fixed", TargetKind(found.client),
                           InRegistryOf(found.client, Get(data, "id")), shown,
                           NotifyFixedEffect(found.client, data, r.ret = "true"))
    /\ UNCHANGED created

\* async_notify_fixed (each \E over a one-element set is a local evaluated once)
NotifyFixed(call, net) ==
    /\ SERVICE_NOTIFY_FIXED \in services
    /\ \E found \in {GetClient(call)} :
           IF found.kind = "none"
           THEN /\ Finish("notify_fixed", "none", FALSE, NoRequest, Untouched)
                /\ UNCHANGED created
           ELSE \E data \in {FixedNotificationDataOf[call]} :
                \E r \in {SendFixedNotification(found.client, data, net)} :
                \E eff \in {IF r.ret = "raise" THEN Untouched
                            ELSE NotifyFixedEffect(found.client, data,
                                                   r.ret = "true")} :
                    /\ Finish("notify_fixed", TargetKind(found.client),
                              InRegistryOf(found.client, Get(data, "id")), r, eff)
                    /\ created' =
                         IF /\ r.ret = "true"
                            /\ Truthy(Get(data, "id"))
                            /\ found.client.obj \in Entries
                         THEN [created EXCEPT ![found.client.obj] = @ \cup {data["id"]}]
                         ELSE created

\* async_clear_fixed
ClearFixed(call, net) ==
    /\ SERVICE_CLEAR_FIXED \in services
    /\ \E found \in {GetClient(call)} :
           IF found.kind = "none"
           THEN /\ Finish("clear_fixed", "none", FALSE, NoRequest, Untouched)
                /\ UNCHANGED created
           ELSE \E notification_id \in {call["id"]} :
                \E r \in {ClearFixedNotification(found.client, notification_id, net)} :
                \E eff \in {IF r.ret = "raise" THEN Untouched
                            ELSE ClearFixedEffect(found.client, notification_id,
                                                  r.ret = "true")} :
                    /\ Finish("clear_fixed", TargetKind(found.client),
                              InRegistryOf(found.client, notification_id), r, eff)
                    /\ created' =
                         IF r.ret = "true" /\ found.client.obj \in Entries
                         THEN [created EXCEPT ![found.client.obj] = @ \ {notification_id}]
                         ELSE created

\* The config flow's connection test (async_step_user): a client for the
\* host and port the user typed, on the shared session. The flow catches
\* what test_connection raises and shows it as an error of the form.
FlowTestConnection(net) ==
    /\ \E r \in {TestConnection(NewClient(<<"q">>, DEFAULT_PORT, "shared", "flow"), net)} :
       \E shown \in {IF r.ret = "raise"
                      THEN [r EXCEPT !.ret = "false", !.exc = NoExc]
                      ELSE r} :
           Finish("test_connection", "flow", FALSE, shown, Untouched)
    /\ UNCHANGED created

\* The three setter calls the entity platforms make on an entry's client.
SetterMethods == {"set_overlay", "set_notifications", "set_settings"}

SetterCall(c, method, data, net) ==
    IF method = "set_notifications" THEN SetNotifications(c, data, net)
    ELSE IF method = "set_overlay" THEN SetOverlay(c, data, net)
    ELSE SetSettings(c, data, net)

\* An entity of a loaded entry changing a setting (the call is the same for
\* every entry, so the first one's client stands for them).
EntitySetter(method, net) ==
    /\ hassData # <<>>
    /\ \E r \in {SetterCall(Entry(1).client, method,
                            [pixelShift |-> PyBool(TRUE)], net)} :
           Finish(method, "entry", FALSE, r, Untouched)
    /\ UNCHANGED created

Next ==
    \/ \E e \in Entries : SetupEntry(e)
    \/ \E e \in Entries, unload_ok \in BOOLEAN : UnloadEntry(e, unload_ok)
    \/ \E call \in NotifyCalls, net \in HandlerNets : Notify(call, net)
    \/ \E call \in NotifyFixedCalls, net \in HandlerNets : NotifyFixed(call, net)
    \/ \E call \in ClearFixedCalls, net \in HandlerNets : ClearFixed(call, net)
    \/ \E net \in HandlerNets : FlowTestConnection(net)
    \/ \E m \in SetterMethods, net \in HandlerNets : EntitySetter(m, net)

Spec == Init /\ [][Next]_vars

\* ------------------------------------------- the client on its own (api.py)

\* The clients the calls below are made on: one holding Home Assistant's
\* shared session, one constructed without a session.
Clients ==
    { NewClient(<<"h">>, DEFAULT_PORT, "shared", "c1"),
      NewClient(<<"g">>, 7, "none", "c2") }

\* The dicts handed to the methods that take one.
Payloads == {EmptyDict, [title |-> PyStr(<<"H", "i">>)]}

\* The end of a direct client call: the sessions as the call leaves them and
\* the record of the call.
Called(method, c, arg, net, r) ==
    /\ cc' = [method |-> method, client |-> c, closedBefore |-> sharedClosed,
              arg |-> arg, net |-> net, ret |-> r.ret, exc |-> r.exc,
              req |-> r.req, posts |-> r.posts, opened |-> r.opened,
              released |-> r.released, closedShared |-> r.closedShared]
    /\ openScoped' = openScoped + r.opened - r.released
    /\ sharedClosed' = (sharedClosed \/ r.closedShared)
    /\ UNCHANGED <<hassData, store, services, created, last, fn, tasks, entity>>

CallTestConnection(c, net) ==
    Called("test_connection", c, EmptyDict, net, TestConnection(c, net))

CallSendNotification(c, data, net) ==
    Called("send_notification", c, data, net, SendNotification(c, data, net))

CallSendFixedNotification(c, data, net) ==
    Called("send_fixed_notification", c, data, net,
           SendFixedNotification(c, data, net))

CallClearFixedNotification(c, notification_id, net) ==
    Called("clear_fixed_notification", c, notification_id, net,
           ClearFixedNotification(c, notification_id, net))

CallSetOverlay(c, data, net) ==
    Called("set_overlay", c, data, net, SetOverlay(c, data, net))

CallSetNotifications(c, data, net) ==
    Called("set_notifications", c, data, net, SetNotifications(c, data, net))

CallSetSettings(c, data, net) ==
    Called("set_settings", c, data, net, SetSettings(c, data, net))

\* Home Assistant closes the shared session (at shutdown); the clients that
\* hold it see `self._session.closed` from then on.
SessionClosed ==
    /\ ~sharedClosed
    /\ sharedClosed' = TRUE
    /\ UNCHANGED <<hassData, store, services, created, openScoped, last, cc,
                   fn, tasks, entity>>

ClientNext ==
    \/ \E c \in Clients, net \in NetOutcomes : CallTestConnection(c, net)
    \/ \E c \in Clients, data \in Payloads, net \in NetOutcomes :
            CallSendNotification(c, data, net)
    \/ \E c \in Clients, data \in Payloads, net \in NetOutcomes :
            CallSendFixedNotification(c, data, net)
    \/ \E c \in Clients, notification_id \in IdValues, net \in NetOutcomes :
            CallClearFixedNotification(c, notification_id, net)
    \/ \E c \in Clients, data \in Payloads, net \in NetOutcomes :
            CallSetOverlay(c, data, net)
    \/ \E c \in Clients, data \in Payloads, net \in NetOutcomes :
            CallSetNotifications(c, data, net)
    \/ \E c \in Clients, data \in Payloads, net \in NetOutcomes :
            CallSetSettings(c, data, net)
    \/ SessionClosed

ClientSpec == Init /\ [][ClientNext]_vars

\* --------------------------------------- the pure helpers on their own

\* The 27 names of COLOR_NAMES.
ColorNameStrings == {p[1] : p \in COLOR_NAMES}

\* str.capitalize() of a lowercase name, a third way of casing it.
Capitalized(s) == <<ToUpper(s[1])>> \o Tail(s)

\* Six hex digits, in lower, upper and mixed case.
HexSamples ==
    { <<"f", "f", "0", "0", "0", "0">>,
      <<"0", "0", "f", "f", "7", "f">>,
      <<"a", "1", "b", "2", "c", "3">>,
      <<"A", "1", "b", "2", "C", "3">>,
      <<"1", "2", "3", "4", "5", "6">>,
      <<"a", "b", "c", "d", "e", "f">>,
      <<"0", "0", "0", "0", "F", "F">> }

\* Strings that are neither a color name nor six hex digits.
MalformedColors ==
    { <<"a", "b", "c">>,
      <<"#", "a", "b", "c">>,
      <<"#", "#", "f", "f", "0", "0", "0", "0">>,
      <<" ">>,
      <<"z", "z", "z">>,
      <<"1", "2", "3", "4", "5", "6", "7">>,
      <<"#">>,
      <<"f", "f", "0", "0">>,
      <<"1", "2", "3", "4", "5", "g">>,
      <<"#", "f", "f", "0", "0", "0", "0", "0">> }

\* The colors handed to _normalize_hex_color: None, "", every table name in
\* three casings, hex digits in every casing with and without '#', some of
\* them inside whitespace, and malformed strings.
ColorInputs ==
    {PyNone, PyStr(<<>>)}
    \cup {PyStr(n) : n \in ColorNameStrings}
    \cup {PyStr(Upper(n)) : n \in ColorNameStrings}
    \cup {PyStr(Capitalized(n)) : n \in ColorNameStrings}
    \cup {PyStr(h) : h \in HexSamples}
    \cup {PyStr(<<"#">> \o h) : h \in HexSamples}
    \cup {PyStr(Upper(h)) : h \in HexSamples}
    \cup {PyStr(<<"#">> \o Lower(h)) : h \in HexSamples}
    \cup {PyStr(<<" ">> \o <<"r", "e", "d">> \o <<" ">>), PyStr(<<" ", "#">> \o <<"f", "f", "0", "0", "0", "0">> \o <<"\n">>)}
    \cup {PyStr(m) : m \in MalformedColors}

\* vol.Range(min=0, max=100) of ATTR_BACKGROUND_OPACITY
MaxOpacity == 100

\* The opacities handed to _hex_with_alpha: None and every value of the range.
OpacityInputs == {PyNone} \cup {PyInt(o) : o \in 0..MaxOpacity}

\* The colors handed to _hex_with_alpha.
AlphaColorInputs ==
    { PyNone, PyStr(<<>>), PyStr(<<"#", "F", "F", "0", "0", "0", "0">>), PyStr(<<"#", "0", "0", "F", "F", "7", "F">>), PyStr(<<"#", "A", "1", "B", "2", "C", "3">>),
      PyStr(<<"f", "f", "0", "0", "0", "0">>), PyStr(<<"r", "e", "d">>), PyStr(<<"a", "b", "c">>) }

\* A field left out, or given one of `values`.
Opt(key, values) == {EmptyDict} \cup {Put(EmptyDict, key, v) : v \in values}

\* The dicts handed to _build_notification_data (call.data under NOTIFY_SCHEMA,
\* and None where a caller passes a field as null).
NotificationInputs ==
    { Merge(Merge(Merge(Merge(a, b), Merge(c, d)), Merge(e, f)), Merge(g, h)) :
        a \in Opt("device_id", {PyStr(<<"d", "1">>)}),
        b \in Opt("title", {PyNone, PyStr(<<"H", "i">>)}),
        c \in Opt("duration", {PyInt(5)}),
        d \in Opt("small_icon", {PyStr(<<>>), PyStr(<<"m", "d", "i">>)}),
        e \in Opt("small_icon_color", {PyNone, PyStr(<<>>), PyStr(<<"r", "e", "d">>), PyStr(<<"a", "b", "c">>)}),
        f \in Opt("large_icon", {PyStr(<<"m", "d", "i">>)}),
        g \in Opt("media_type", {PyNone, PyStr(<<"none">>), PyStr(<<"image">>),
                                 PyStr(<<"video">>)}),
        h \in Opt("media_url", {PyNone, PyStr(<<>>), PyStr(<<"x", ".", "m", "p", "4">>)}) }

\* The dicts handed to _build_fixed_notification_data.
FixedNotificationInputs ==
    { Merge(Merge(Merge(Merge(a, b), Merge(c, d)), Merge(e, f)), Merge(g, h)) :
        a \in Opt("id", {PyStr(<<"a">>)}),
        b \in Opt("visible", {PyBool(FALSE)}),
        c \in Opt("message", {PyNone, PyStr(<<"H", "i">>)}),
        d \in Opt("icon", {PyStr(<<>>)}),
        e \in Opt("message_color", {PyStr(<<"r", "e", "d">>), PyStr(<<"a", "b", "c">>)}),
        f \in Opt("border_color", {PyStr(<<"#", "0", "0", "f", "f", "7", "f">>)}),
        g \in Opt("background_color", {PyNone, PyStr(<<>>), PyStr(<<"r", "e", "d">>),
                                       PyStr(<<"#", "f", "f", "0", "0", "0", "0">>), PyStr(<<"a", "b", "c">>)}),
        h \in Opt("background_opacity", {PyNone, PyInt(0), PyInt(50), PyInt(100)}) }

\* The calls of the pure helpers, not yet made.
HelperCalls ==
    {[name |-> "_normalize_hex_color", args |-> <<c>>, done |-> FALSE,
      result |-> PyNone] : c \in ColorInputs}
    \cup {[name |-> "_hex_with_alpha", args |-> <<c, o>>, done |-> FALSE,
           result |-> PyNone] : c \in AlphaColorInputs, o \in OpacityInputs}
    \cup {[name |-> "_build_notification_data", args |-> <<d>>, done |-> FALSE,
           result |-> PyNone] : d \in NotificationInputs}
    \cup {[name |-> "_build_fixed_notification_data", args |-> <<d>>,
           done |-> FALSE, result |-> PyNone] : d \in FixedNotificationInputs}

HelperInit ==
    /\ hassData = <<>>
    /\ store = [e \in Entries |-> [has |-> FALSE, ids |-> <<>>]]
    /\ services = {}
    /\ created = [e \in Entries |-> {}]
    /\ sharedClosed = FALSE
    /\ openScoped = 0
    /\ last = Idle
    /\ cc = IdleCall
    /\ fn \in HelperCalls
    /\ tasks = <<>>
    /\ entity = NoEntity

\* The end of a helper call: its result, next to its arguments.
Returned(result) ==
    /\ fn' = [fn EXCEPT !.done = TRUE, !.result = result]
    /\ UNCHANGED <<hassData, store, services, created, sharedClosed,
                   openScoped, last, cc, tasks, entity>>

CallNormalizeHexColor ==
    /\ fn.name = "_normalize_hex_color" /\ ~fn.done
    /\ Returned(NormalizeHexColor(fn.args[1]))

CallHexWithAlpha ==
    /\ fn.name = "_hex_with_alpha" /\ ~fn.done
    /\ Returned(HexWithAlpha(fn.args[1], fn.args[2]))

CallBuildNotificationData ==
    /\ fn.name = "_build_notification_data" /\ ~fn.done
    /\ Returned(BuildNotificationData(fn.args[1]))

CallBuildFixedNotificationData ==
    /\ fn.name = "_build_fixed_notification_data" /\ ~fn.done
    /\ Returned(BuildFixedNotificationData(fn.args[1]))

HelperNext ==
    \/ CallNormalizeHexColor
    \/ CallHexWithAlpha
    \/ CallBuildNotificationData
    \/ CallBuildFixedNotificationData

HelperSpec == HelperInit /\ [][HelperNext]_vars

\* --------------------------------------------------------------- properties

Registry(i) == hassData[i].notification_ids

Loaded == 1..Len(hassData)

\* C1: in every reachable state, for every loaded entry, an ID is in the
\* entry's registry if and only if the last successful operation on that ID
\* against the entry was a create (a notify_fixed carrying the ID) and no
\* successful clear of it has followed.
C1_RegistryIffLastSuccessWasCreate ==
    \A i \in Loaded : Elements(Registry(i)) = created[hassData[i].entry_id]

\* A successful clear has just removed an ID from an entry's registry while
\* another ID, created earlier, is still registered there.
C1_Witness ==
    /\ last.op = "clear_fixed" /\ last.ret = "true" /\ last.had
    /\ \E i \in Loaded : Registry(i) # <<>>

\* C2: a clear_fixed call changes a registry only if clear_fixed_notification
\* returned true, and when it returned false the registries and the persisted
\* lists are exactly what they were before the call.
C2_ClearRemovesOnlyOnSuccess ==
    [][last'.op = "clear_fixed" =>
          /\ (hassData' # hassData => last'.ret = "true")
          /\ (last'.ret = "false" => hassData' = hassData /\ store' = store)]_vars

\* A clear_fixed call for an ID that is in the entry's registry has come back
\* false.
C2_Witness ==
    /\ last.op = "clear_fixed" /\ last.target = "entry"
    /\ last.ret = "false" /\ last.had

RequestRaised == cc.req.ret = "raise"

\* C3 (as claimed): whenever the POST of _request got a response, _request
\* returned true if and only if the status was exactly 200, and for every
\* other status it returned false and did not raise.
C3_TrueIffStatus200 ==
    (cc.method # "idle" /\ cc.net.post = "response") =>
        /\ (cc.req.ret = "true" <=> cc.net.status = 200)
        /\ (cc.net.status # 200 => cc.req.ret = "false")

\* A timeout or a transport-level failure anywhere in the HTTP exchange: of
\* the POST itself or of the reading of the response.
ConnectionFailed ==
    \/ cc.net.post \in {"timeout", "client_error"}
    \/ cc.net.post = "response" /\ cc.net.body \in {"timeout", "client_error"}

\* C4 (as claimed): on a timeout or a transport-level failure _request raises
\* TvOverlayConnectionError with the client's host and port in its message,
\* and in no other case does _request end with an exception.
C4_RaisesOnlyConnectionError ==
    cc.method # "idle" =>
        /\ (cc.net.post \in {"timeout", "client_error"} =>
               /\ RequestRaised
               /\ cc.req.exc.type = "TvOverlayConnectionError"
               /\ Contains(cc.req.exc.msg, cc.client.host)
               /\ Contains(cc.req.exc.msg, IntToStr(cc.client.port)))
        /\ (RequestRaised => ConnectionFailed)

\* C5 (as claimed): test_connection posts an empty payload to the notify
\* endpoint and ends with a boolean, whatever the request did.
C5_TestConnectionNeverRaises ==
    cc.method = "test_connection" =>
        /\ Len(cc.posts) = 1
        /\ cc.posts[1].url = BaseUrl(cc.client) \o ENDPOINT_NOTIFY
        /\ cc.posts[1].json = EmptyDict
        /\ cc.ret \in {"true", "false"}

\* C6: no handler - the three services, the entities' setters, the
\* connection test - issues more than one HTTP POST, whatever the outcome of
\* the first.
C6_AtMostOnePost == last.nposts <= 1

\* A notify call whose request failed with a connection error has issued
\* exactly one POST.
C6_Witness ==
    /\ last.op = "notify" /\ last.exc = "TvOverlayConnectionError"
    /\ last.nposts = 1

SessionOpen == cc.client.session = "shared" /\ ~cc.closedBefore

\* C7: a call on a client whose shared session is open posts on that session,
\* opens no other and does not close it; a call on a client whose session is
\* absent or closed posts on a session of its own, released when the call
\* ends, however it ends; no scoped session is ever left open.
C7_SessionReuse ==
    /\ openScoped = 0
    /\ cc.method # "idle" =>
          /\ SessionOpen =>
                /\ \A k \in 1..Len(cc.posts) : cc.posts[k].via = "shared"
                /\ cc.opened = 0
                /\ ~cc.closedShared
          /\ ~SessionOpen =>
                /\ \A k \in 1..Len(cc.posts) : cc.posts[k].via = "scoped"
                /\ cc.opened = 1
                /\ cc.released = 1

\* A call on a client whose shared session had been closed has ended with an
\* exception.
C7_Witness ==
    /\ cc.method # "idle" /\ cc.client.session = "shared" /\ cc.closedBefore
    /\ RequestRaised

\* C8: a notify, notify_fixed or clear_fixed call for which no client is
\* resolved raises nothing, sends nothing and leaves every registry and every
\* persisted list as it was.
C8_UnresolvedIsSkipped ==
    [][(last'.op \in {"notify", "notify_fixed", "clear_fixed"}
            /\ last'.target = "none") =>
          /\ last'.exc = "none"
          /\ last'.nposts = 0
          /\ hassData' = hassData
          /\ store' = store]_vars

\* A clear_fixed call resolved no client while an entry with a registered ID
\* was loaded.
C8_Witness ==
    /\ last.op = "clear_fixed" /\ last.target = "none"
    /\ \E i \in Loaded : Registry(i) # <<>>

\* C9: the registry of every loaded entry is the list its store holds (the
\* empty list when the store holds nothing): at setup the registry is the
\* stored list, and every add or remove that changes it saves it.
C9_StoreEqualsRegistry ==
    \A i \in Loaded :
        LET st == store[hassData[i].entry_id]
        IN  Registry(i) = IF st.has THEN st.ids ELSE <<>>

\* An entry has just been set up with a stored list of two IDs.
C9_Witness ==
    /\ last.op = "setup"
    /\ Len(Registry(Len(hassData))) = 2

\* C10: clear_fixed_notification(x) issues one POST, to the URL
\* send_fixed_notification posts to, with the body {id: x, visible: false}
\* and no other key.
C10_ClearIsNotifyFixedInvisible ==
    cc.method = "clear_fixed_notification" =>
        /\ Len(cc.posts) = 1
        /\ cc.posts[1].url
             = SendFixedNotification(cc.client, EmptyDict, cc.net).posts[1].url
        /\ DOMAIN cc.posts[1].json = {"id", "visible"}
        /\ cc.posts[1].json["id"] = cc.arg
        /\ cc.posts[1].json["visible"] = PyBool(FALSE)

\* clear_fixed_notification has been called and has come back false.
C10_Witness ==
    cc.method = "clear_fixed_notification" /\ cc.ret = "false"


\* ------------------------------------- the handlers between their awaits

\* Calls of notify_fixed and clear_fixed for one device, e1's.
SameDevice(call) == Get(call, "device_id") = PyStr(<<"d", "1">>)

\* A handler suspended at `await client.send_fixed_notification(data)` or
\* `await client.clear_fixed_notification(notification_id)`: what it holds in
\* its locals.
Suspended(op, call, client) ==
    [op |-> op, call |-> call, client |-> client, pc |-> "request"]

RemoveAt(seq, k) == SubSeq(seq, 1, k - 1) \o SubSeq(seq, k + 1, Len(seq))

\* async_notify_fixed / async_clear_fixed up to the first await: the client
\* is resolved, the payload built and the request sent.
Start(op, call) ==
    /\ Len(tasks) < MaxTasks
    /\ op \in services
    /\ \E found \in {GetClient(call)} :
           tasks' = IF found.kind = "none" THEN tasks
                    ELSE Append(tasks, Suspended(op, call, found.client))
    /\ UNCHANGED <<hassData, store, services, created, sharedClosed,
                   openScoped, last, cc, fn, entity>>

\* The request of the k-th suspended handler is answered and the handler runs
\* to its next await or to its end: `if success ...` and the synchronous part
\* of _add_notification_id / _remove_notification_id, which suspends again
\* at `await entry_data["store"].async_save(...)` when it changed the list.
Respond(k, net) ==
    /\ k \in 1..Len(tasks)
    /\ tasks[k].pc = "request"
    /\ \E t \in {tasks[k]} :
       \E id \in {Get(t.call, "id")} :
       \E r \in {IF t.op = SERVICE_NOTIFY_FIXED
                 THEN SendFixedNotification(t.client,
                                            FixedNotificationDataOf[t.call], net)
                 ELSE ClearFixedNotification(t.client, id, net)} :
       \E eff \in {IF r.ret = "raise" THEN Untouched
                   ELSE IF t.op = SERVICE_NOTIFY_FIXED
                   THEN NotifyFixedEffect(t.client, FixedNotificationDataOf[t.call],
                                          r.ret = "true")
                   ELSE ClearFixedEffect(t.client, id, r.ret = "true")} :
           /\ hassData' = eff.data
           /\ tasks' = IF eff.saved
                       THEN [tasks EXCEPT ![k].pc = "save"]
                       ELSE RemoveAt(tasks, k)
           /\ created' =
                IF r.ret = "true" /\ t.client.obj \in Entries
                THEN IF t.op = SERVICE_CLEAR_FIXED
                     THEN [created EXCEPT ![t.client.obj] = @ \ {id}]
                     ELSE IF Truthy(id)
                     THEN [created EXCEPT ![t.client.obj] = @ \cup {id}]
                     ELSE created
                ELSE created
           /\ openScoped' = openScoped + r.opened - r.released
           /\ sharedClosed' = (sharedClosed \/ r.closedShared)
    /\ UNCHANGED <<store, services, last, cc, fn, entity>>

\* The store writes the data of the k-th suspended handler's async_save. The
\* handler handed it the list itself, not a copy: what is written is the list
\* as it is when the store serializes it, at some time during the await.
SaveWritten(k) ==
    /\ k \in 1..Len(tasks)
    /\ tasks[k].pc = "save"
    /\ \E i \in {GetEntryDataFromClient(tasks[k].client)} :
           store' = AsyncSave(store, hassData[i].entry_id,
                              hassData[i].notification_ids)
    /\ tasks' = [tasks EXCEPT ![k].pc = "saved"]
    /\ UNCHANGED <<hassData, services, created, sharedClosed, openScoped,
                   last, cc, fn, entity>>

\* `await entry_data["store"].async_save(...)` of the k-th suspended handler
\* returns, the listeners run and the handler ends.
SaveDone(k) ==
    /\ k \in 1..Len(tasks)
    /\ tasks[k].pc = "saved"
    /\ tasks' = RemoveAt(tasks, k)
    /\ UNCHANGED <<hassData, store, services, created, sharedClosed,
                   openScoped, last, cc, fn, entity>>

ConcNext ==
    \/ SetupEntry("e1")
    \/ \E call \in {c \in NotifyFixedCalls : SameDevice(c)} :
           Start(SERVICE_NOTIFY_FIXED, call)
    \/ \E call \in {c \in ClearFixedCalls : SameDevice(c)} :
           Start(SERVICE_CLEAR_FIXED, call)
    \/ \E k \in 1..MaxTasks, net \in HandlerNets : Respond(k, net)
    \/ \E k \in 1..MaxTasks : SaveWritten(k)
    \/ \E k \in 1..MaxTasks : SaveDone(k)

ConcSpec == Init /\ [][ConcNext]_vars

\* ------------------------------------------- client resolution on its own

\* device_id as a caller can give it: left out, empty, a device of each
\* entry, a device of another integration, the entries' name, an entry's
\* host, and a string that is none of these.
DeviceIdInputs ==
    Opt("device_id", { PyStr(<<>>), PyStr(<<"d", "1">>), PyStr(<<"d", "2">>),
                       PyStr(<<"d", "9">>), PyStr(<<"n">>), PyStr(<<"h">>),
                       PyStr(<<"z">>) })

\* host as a caller can give it: left out, empty, an entry's host without
\* and with its port, an entry's host with another port or with no valid
\* port, and an unconfigured host.
HostInputs ==
    Opt("host", { PyStr(<<>>), PyStr(<<"h">>),
                  PyStr(<<"h", ":", "5", "0", "0", "1">>),
                  PyStr(<<"g", ":", "7">>), PyStr(<<"g">>),
                  PyStr(<<"g", ":", "x">>), PyStr(<<"k", ":", "9">>) })

ResolveInputs == {Merge(a, b) : a \in DeviceIdInputs, b \in HostInputs}

\* A call of _get_client: hass.data is read, nothing is changed.
Resolve(call_data) ==
    /\ fn' = [name |-> "_get_client", args |-> <<call_data>>, done |-> TRUE,
              result |-> GetClient(call_data)]
    /\ UNCHANGED <<hassData, store, services, created, sharedClosed,
                   openScoped, last, cc, tasks, entity>>

ResolveNext ==
    \/ \E e \in Entries : SetupEntry(e)
    \/ \E e \in Entries, unload_ok \in BOOLEAN : UnloadEntry(e, unload_ok)
    \/ \E call_data \in ResolveInputs : Resolve(call_data)

ResolveSpec == Init /\ [][ResolveNext]_vars

\* ------------------------- switch.py, number.py, select.py: the entities

\* A Python float with one decimal, held in tenths.
PyFloat(tenths) == [t |-> "float", v |-> tenths]

\* int(value) of a float: truncation toward zero.
IntOfFloat(x) ==
    PyInt(IF x.v >= 0 THEN x.v \div 10 ELSE -((-x.v) \div 10))

SWITCH_DESCRIPTIONS ==
    { [key |-> "display_clock", api_key |-> PyStr(<<"clockOverlayVisibility">>),
       endpoint |-> PyStr(<<"overlay">>)],
      [key |-> "display_notifications",
       api_key |-> PyStr(<<"displayNotifications">>),
       endpoint |-> PyStr(<<"notifications">>)],
      [key |-> "display_fixed_notifications",
       api_key |-> PyStr(<<"displayFixedNotifications">>),
       endpoint |-> PyStr(<<"notifications">>)],
      [key |-> "pixel_shift", api_key |-> PyStr(<<"pixelShift">>),
       endpoint |-> PyStr(<<"settings">>)],
      [key |-> "debug_mode", api_key |-> PyStr(<<"displayDebug">>),
       endpoint |-> PyStr(<<"settings">>)] }

\* native_min_value, native_max_value and the value __init__ sets, in tenths.
NUMBER_DESCRIPTIONS ==
    { [key |-> "clock_visibility", api_key |-> PyStr(<<"clockOverlayVisibility">>),
       endpoint |-> PyStr(<<"overlay">>), min |-> 0, max |-> 950, initial |-> 0],
      [key |-> "overlay_visibility", api_key |-> PyStr(<<"overlayVisibility">>),
       endpoint |-> PyStr(<<"overlay">>), min |-> 0, max |-> 950, initial |-> 0],
      [key |-> "fixed_notifications_visibility",
       api_key |-> PyStr(<<"fixedNotificationsVisibility">>),
       endpoint |-> PyStr(<<"notifications">>),
       min |-> -10, max |-> 950, initial |-> -10],
      [key |-> "notification_duration",
       api_key |-> PyStr(<<"notificationDuration">>),
       endpoint |-> PyStr(<<"notifications">>),
       min |-> 10, max |-> 600, initial |-> 50] }

\* options_list (two of the options each) and the option __init__ sets when
\* entry_data holds none.
SELECT_DESCRIPTIONS ==
    { [key |-> "notification_layout",
       api_key |-> PyStr(<<"notificationLayoutName">>),
       endpoint |-> PyStr(<<"notifications">>),
       options |-> {<<"Default">>, <<"Minimalist">>, <<"Icon Only">>},
       initial |-> <<"Default">>],
      [key |-> "default_corner", api_key |-> PyNone, endpoint |-> PyNone,
       options |-> {<<"top_end">>, <<"bottom_start">>}, initial |-> <<"top_end">>],
      [key |-> "default_shape", api_key |-> PyNone, endpoint |-> PyNone,
       options |-> {<<"rounded">>, <<"circle">>}, initial |-> <<"rounded">>] }

\* The entities the three platforms construct for an entry: __init__ of
\* TvOverlaySwitch, TvOverlayNumber and TvOverlaySelect. asked is the value of
\* the last request made of the entity.
NewEntity(kind, d, state) ==
    [kind |-> kind, key |-> d.key, api_key |-> d.api_key, endpoint |-> d.endpoint,
     state |-> state, stored |-> PyNone, asked |-> PyNone]

Entities ==
    {NewEntity("switch", d, PyBool(TRUE)) : d \in SWITCH_DESCRIPTIONS}
    \cup {NewEntity("number", d, PyFloat(d.initial)) : d \in NUMBER_DESCRIPTIONS}
    \cup {NewEntity("select", d, PyStr(d.initial)) : d \in SELECT_DESCRIPTIONS}

\* The values a number entity can be asked for: within its range, whole and
\* fractional.
NumberValues(key) ==
    UNION { {PyFloat(v) : v \in {x \in {-10, -5, 0, 75, 100, 600, 950} :
                                    d.min <= x /\ x <= d.max}} :
            d \in {x \in NUMBER_DESCRIPTIONS : x.key = key} }

SelectOptions(key) ==
    UNION { {PyStr(o) : o \in d.options} :
            d \in {x \in SELECT_DESCRIPTIONS : x.key = key} }

\* `data = {self.entity_description.api_key: value}` and the setter call
\* the entity's endpoint selects; a select entity with another endpoint than
\* "notifications" sends nothing and fails.
EntityRequest(ent, value, net) ==
    LET c == Entry(1).client
        data == [k \in {ent.api_key.v[1]} |-> value]
    IN  IF ent.endpoint = PyStr(<<"notifications">>) THEN SetNotifications(c, data, net)
        ELSE IF ent.kind = "select" THEN [NoRequest EXCEPT !.ret = "false"]
        ELSE IF ent.endpoint = PyStr(<<"overlay">>) THEN SetOverlay(c, data, net)
        ELSE IF ent.kind = "switch" THEN SetSettings(c, data, net)
        ELSE SetNotifications(c, data, net)

\* TvOverlaySwitch._set_state with the state taken whatever the call returned.
SetStateAlways(ent, state, success) ==
    [ent EXCEPT !.state = PyBool(state)]

\* The end of TvOverlaySwitch._set_state: `if success: self._attr_is_on = state`
SetState(ent, state, success) ==
    IF success THEN [ent EXCEPT !.state = PyBool(state)] ELSE ent

\* The end of TvOverlayNumber.async_set_native_value
SetNativeValue(ent, value, success) ==
    IF success THEN [ent EXCEPT !.state = value] ELSE ent

\* The end of TvOverlaySelect.async_select_option: the option is taken unless
\* a request was made and failed.
SelectOption(ent, option, requested, success) ==
    IF requested /\ ~success THEN ent
    ELSE [ent EXCEPT !.state = option, !.stored = option]

\* An entry with its platforms set up and one of its entities.
EntityInit ==
    /\ hassData = <<[entry_id |-> "e1", notification_ids |-> <<>>]>>
    /\ store = [e \in Entries |-> [has |-> FALSE, ids |-> <<>>]]
    /\ services = RegisterServices({})
    /\ created = [e \in Entries |-> {}]
    /\ sharedClosed = FALSE
    /\ openScoped = 0
    /\ last = [Idle EXCEPT !.op = "setup", !.ret = "true"]
    /\ cc = IdleCall
    /\ fn = IdleFn
    /\ tasks = <<>>
    /\ entity \in Entities

\* The end of an entity's handler: what its caller sees and the entity as
\* the handler leaves it; an exception of the client ends the handler.
EntityDone(op, asked, r, new) ==
    /\ entity' = [(IF r.ret = "raise" THEN entity ELSE new) EXCEPT !.asked = asked]
    /\ last' = [op |-> op, target |-> "entry", had |-> FALSE, ret |-> r.ret,
                exc |-> r.exc.type, raised |-> r.req.exc.type,
                nposts |-> Len(r.posts),
                saved |-> FALSE, notified |-> FALSE]
    /\ openScoped' = openScoped + r.opened - r.released
    /\ sharedClosed' = (sharedClosed \/ r.closedShared)
    /\ UNCHANGED <<hassData, store, services, created, cc, fn, tasks>>

\* TvOverlaySwitch.async_turn_on / async_turn_off
SwitchTurn(state, net) ==
    /\ entity.kind = "switch"
    /\ \E value \in {IF entity.key = "display_clock"
                     THEN PyInt(IF state THEN 95 ELSE 0)
                     ELSE PyBool(state)} :
       \E r \in {EntityRequest(entity, value, net)} :
           EntityDone(IF state THEN "async_turn_on" ELSE "async_turn_off",
                      PyBool(state), r, SetState(entity, state, r.ret = "true"))

\* TvOverlayNumber.async_set_native_value
NumberSet(value, net) ==
    /\ entity.kind = "number"
    /\ \E r \in {EntityRequest(entity, IntOfFloat(value), net)} :
           EntityDone("async_set_native_value", value, r,
                      SetNativeValue(entity, value, r.ret = "true"))

\* TvOverlaySelect.async_select_option
SelectSet(option, net) ==
    /\ entity.kind = "select"
    /\ \E requested \in {Truthy(entity.api_key) /\ Truthy(entity.endpoint)} :
       \E r \in {IF requested
                 THEN EntityRequest(entity, option, net)
                 ELSE NoRequest} :
           EntityDone("async_select_option", option, r,
                      SelectOption(entity, option, requested, r.ret = "true"))

EntityNext ==
    \/ \E state \in BOOLEAN, net \in HandlerNets : SwitchTurn(state, net)
    \/ \E value \in NumberValues(entity.key), net \in HandlerNets :
           NumberSet(value, net)
    \/ \E option \in SelectOptions(entity.key), net \in HandlerNets :
           SelectSet(option, net)

EntitySpec == EntityInit /\ [][EntityNext]_vars

\* ------------------------------------------------ properties of the helpers

UpperHexChars == {HexChars[i] : i \in 1..16}

HexDigitChars == UpperHexChars \cup {"a", "b", "c", "d", "e", "f"}

SixHex(s) == Len(s) = 6 /\ \A i \in 1..6 : s[i] \in HexDigitChars

\* '#' followed by exactly six uppercase hex digits
IsRRGGBB(s) ==
    /\ Len(s) = 7
    /\ s[1] = "#"
    /\ \A i \in 2..7 : s[i] \in UpperHexChars

\* '#' followed by exactly eight uppercase hex digits
IsAARRGGBB(s) ==
    /\ Len(s) = 9
    /\ s[1] = "#"
    /\ \A i \in 2..9 : s[i] \in UpperHexChars

\* six hex digits with an optional leading '#'
IsHexColor(s) == SixHex(s) \/ (Len(s) = 7 /\ s[1] = "#" /\ SixHex(Tail(s)))

\* a table name or a hex color, in any letter case, whitespace around it ignored
WellFormedColor(s) == IsColorName(Lower(Strip(s))) \/ IsHexColor(Strip(s))

DropHash(s) == IF s # <<>> /\ s[1] = "#" THEN Tail(s) ELSE s

NormalizeDone == fn.name = "_normalize_hex_color" /\ fn.done

\* C11 as stated: the output of _normalize_hex_color is nothing, for an empty
\* or absent input, or '#' followed by exactly six uppercase characters, and
\* never has any other shape.
C11_AlwaysRRGGBB ==
    NormalizeDone =>
        IF fn.args[1] \in {PyNone, PyStr(<<>>)}
        THEN fn.result = PyNone
        ELSE fn.result.t = "str" /\ IsRRGGBB(fn.result.v)

\* C11, amended: the output is nothing exactly for an empty or absent input;
\* a table name or six hex digits with an optional '#' give #RRGGBB in
\* uppercase; any other string passes through stripped, uppercased and
\* starting with '#', its characters otherwise kept.
C11_RRGGBBWhenWellFormed ==
    NormalizeDone =>
        IF fn.args[1] \in {PyNone, PyStr(<<>>)}
        THEN fn.result = PyNone
        ELSE /\ fn.result.t = "str"
             /\ fn.result.v # <<>> /\ fn.result.v[1] = "#"
             /\ \A i \in 1..Len(fn.result.v) : fn.result.v[i] \notin {LowerChars[j] : j \in 1..26}
             /\ WellFormedColor(fn.args[1].v) => IsRRGGBB(fn.result.v)
             /\ ~WellFormedColor(fn.args[1].v) =>
                    /\ ~IsRRGGBB(fn.result.v)
                    /\ Lower(DropHash(fn.result.v))
                           = Lower(DropHash(Strip(fn.args[1].v)))

C11_Witness ==
    /\ NormalizeDone
    /\ fn.args[1] = PyStr(<<"a", "b", "c">>)
    /\ fn.result = PyStr(<<"#", "A", "B", "C">>)

\* C12: a table name in any letter case returns the table's value, and a hex
\* string normalizes to '#' and its six digits in uppercase, with or without
\* a leading '#' and in any letter case.
C12_CaseAndHashInsensitive ==
    (NormalizeDone /\ fn.args[1].t = "str") =>
        LET a == fn.args[1].v
            r == fn.result
        IN  /\ IsColorName(Lower(a)) =>
                   r = PyStr(ColorOfName(Lower(a))) /\ IsRRGGBB(r.v)
            /\ IsHexColor(a) =>
                   /\ r.t = "str" /\ IsRRGGBB(r.v)
                   /\ \A i \in 1..6 : ToLower(r.v[i + 1]) = ToLower(DropHash(a)[i])

C12_Witness ==
    /\ NormalizeDone
    /\ fn.args[1] = PyStr(<<"#", "f", "f", "0", "0", "0", "0">>)
    /\ fn.result = PyStr(<<"#", "F", "F", "0", "0", "0", "0">>)

AlphaDone == fn.name = "_hex_with_alpha" /\ fn.done

\* a value 0..255 as two uppercase hex digits
TwoHexDigits(a) == <<HexChars[(a \div 16) + 1], HexChars[(a % 16) + 1]>>

OpacityOrDefault(opacity) == IF opacity = PyNone THEN 40 ELSE opacity.v

\* C13 as stated: for a #RRGGBB color and an opacity 0..100 the result is
\* #AARRGGBB with AA = round(opacity * 255 / 100) in two uppercase hex digits
\* and RRGGBB unchanged; an absent opacity counts as 40.
C13_AlphaRounded ==
    (AlphaDone /\ fn.args[1].t = "str" /\ IsRRGGBB(fn.args[1].v)) =>
        fn.result = PyStr(<<"#">>
                          \o TwoHexDigits(RoundHalfEven(
                                 OpacityOrDefault(fn.args[2]) * 255, 100))
                          \o Tail(fn.args[1].v))

\* C13, amended: AA is opacity * 255 / 100 truncated to an integer.
C13_AlphaTruncated ==
    (AlphaDone /\ fn.args[1].t = "str" /\ IsRRGGBB(fn.args[1].v)) =>
        fn.result = PyStr(<<"#">>
                          \o TwoHexDigits((OpacityOrDefault(fn.args[2]) * 255) \div 100)
                          \o Tail(fn.args[1].v))

C13_Witness ==
    /\ AlphaDone
    /\ fn.args = <<PyStr(<<"#", "F", "F", "0", "0", "0", "0">>), PyInt(50)>>
    /\ fn.result = PyStr(<<"#", "7", "F", "F", "F", "0", "0", "0", "0">>)

BuildDone ==
    /\ fn.name \in {"_build_notification_data", "_build_fixed_notification_data"}
    /\ fn.done

\* The API keys a service field can produce.
ApiKeysOf(field) ==
    CASE field \in {"id", "title", "message", "source", "corner", "duration",
                    "visible", "shape", "expiration", "icon"} -> {field}
      [] field = "small_icon" -> {"smallIcon"}
      [] field = "small_icon_color" -> {"smallIconColor"}
      [] field = "large_icon" -> {"largeIcon"}
      [] field = "media_url" -> {"image", "video"}
      [] field = "message_color" -> {"messageColor"}
      [] field = "icon_color" -> {"iconColor"}
      [] field = "border_color" -> {"borderColor"}
      [] field = "background_color" -> {"backgroundColor"}
      [] OTHER -> {}

\* C14: both builders omit the keys whose source field is absent or null and
\* inject no defaults: the payload's keys are among the API keys of the fields
\* present with a non-null value; only a title gives only a title, and an
\* empty input gives an empty payload.
C14_NoKeyWithoutField ==
    BuildDone =>
        LET data == fn.args[1]
            present == {k \in DOMAIN data : data[k] # PyNone}
        IN  /\ DOMAIN fn.result \subseteq UNION {ApiKeysOf(k) : k \in present}
            /\ \A k \in DOMAIN fn.result : fn.result[k] # PyNone
            /\ DOMAIN data = {"title"} => (present = {} \/ fn.result = data)
            /\ DOMAIN data = {} => DOMAIN fn.result = {}

C14_Witness ==
    /\ BuildDone
    /\ DOMAIN fn.args[1] = {"title"}
    /\ fn.args[1]["title"] = PyStr(<<"H", "i">>)
    /\ DOMAIN fn.result = {"title"}
    /\ fn.result["title"] = PyStr(<<"H", "i">>)

\* C15: for every media_type in {absent, none, image, video} and media_url in
\* {absent, empty, non-empty} the payload never holds both image and video;
\* it holds a media key only when the type is not "none" and the URL is
\* present, and then exactly the key media_type names, holding the URL.
C15_MediaKeyIsMediaType ==
    (fn.name = "_build_notification_data" /\ fn.done) =>
        LET media_type == Get(fn.args[1], "media_type")
            media_url == Get(fn.args[1], "media_url")
        IN  /\ ~({"image", "video"} \subseteq DOMAIN fn.result)
            /\ \A k \in {"image", "video"} :
                   /\ k \in DOMAIN fn.result <=>
                          /\ media_type = PyStr(<<k>>)
                          /\ media_url.t = "str" /\ media_url.v # <<>>
                   /\ k \in DOMAIN fn.result => fn.result[k] = media_url

C15_Witness ==
    /\ fn.name = "_build_notification_data" /\ fn.done
    /\ Get(fn.args[1], "media_type") = PyStr(<<"video">>)
    /\ "video" \in DOMAIN fn.result
    /\ "image" \notin DOMAIN fn.result

FixedDone == fn.name = "_build_fixed_notification_data" /\ fn.done

PlainColorFields ==
    { <<"message_color", "messageColor">>, <<"icon_color", "iconColor">>,
      <<"border_color", "borderColor">> }

RegistriesChanged ==
    {i \in 1..Len(hassData) : hassData'[i].notification_ids
                                  # hassData[i].notification_ids}

\* C17: a step of notify, of an entity setter or of the connection test
\* changes no registry; a step of notify_fixed or clear_fixed changes one only
\* when the request returned true and the resolved client is a configured
\* entry's, and then only that entry's registry, notify_fixed by appending a
\* non-empty id.
C17_RegistryFrame ==
    [][ /\ last'.op \in {"notify", "test_connection"} \cup SetterMethods =>
               hassData' = hassData
        /\ last'.op \in {"notify_fixed", "clear_fixed"} =>
               /\ Len(hassData') = Len(hassData)
               /\ \A i \in 1..Len(hassData) :
                      hassData'[i].entry_id = hassData[i].entry_id
               /\ RegistriesChanged # {} =>
                      /\ last'.ret = "true"
                      /\ last'.target = "entry"
                      /\ Cardinality(RegistriesChanged) = 1
                      /\ \A i \in RegistriesChanged :
                             /\ created'[hassData[i].entry_id]
                                    # created[hassData[i].entry_id]
                             /\ last'.op = "notify_fixed" =>
                                    \E id \in Elements(hassData'[i].notification_ids) :
                                        /\ Truthy(id)
                                        /\ hassData'[i].notification_ids
                                               = Append(hassData[i].notification_ids, id)
      ]_vars

\* A create on the second of two loaded entries has stored its id there and
\* left the first entry's registry empty.
C17_Witness ==
    /\ Len(hassData) = 2
    /\ last.op = "notify_fixed" /\ last.ret = "true" /\ last.target = "entry"
    /\ hassData[1].notification_ids = <<>>
    /\ hassData[2].notification_ids # <<>>


\* C20: after any sequence of setups and unloads the three services are
\* registered if and only if at least one entry is loaded, all three together
\* or none; an unload whose platform unload fails changes neither the entry
\* data nor the services.
C20_ServicesIffEntryLoaded ==
    /\ [](services = IF hassData # <<>>
                     THEN {SERVICE_NOTIFY, SERVICE_NOTIFY_FIXED, SERVICE_CLEAR_FIXED}
                     ELSE {})
    /\ [][ (last'.op = "unload" /\ last'.ret = "false") =>
               (hassData' = hassData /\ services' = services) ]_vars

\* The last of two loaded entries has been unloaded and the services are gone.
C20_Witness ==
    /\ last.op = "unload" /\ last.ret = "true"
    /\ hassData = <<>>
    /\ services = {}
    /\ \E e \in Entries : store[e].has


\* ------------------------------------------ properties of client resolution

\* The loaded entries the device registry names for a device id.
EntriesOfDevice(device_id) ==
    IF DeviceKnown(device_id)
    THEN {e \in LoadedEntries : <<DOMAIN_NAME, e>> \in DeviceIdentifiers(device_id)}
    ELSE {}

\* The positions in hass.data of the entries with this name or host.
EntriesNamed(name_or_host) ==
    {i \in 1..Len(hassData) : name_or_host \in {Entry(i).name, Entry(i).host}}

\* C19: a non-empty device_id is tried first, as a device-registry id and
\* then as an entry's name or host; only when that yields no client is
\* host[:port] used, giving the entry's client when host and port both match
\* an entry and otherwise an ad-hoc client for the parsed host and port, the
\* default port when no valid port is given; there is no client only when
\* device_id does not resolve and host is absent or empty.
C19_DeviceIdBeforeHost ==
    [][ (fn'.name = "_get_client" /\ fn' # fn) =>
          LET device_id == Get(fn'.args[1], "device_id")
              host == Get(fn'.args[1], "host")
              found == fn'.result
              byDevice == IF Truthy(device_id) THEN EntriesOfDevice(device_id.v) ELSE {}
              byName == IF Truthy(device_id) THEN EntriesNamed(device_id.v) ELSE {}
              parsed == ParseHostPort(host.v)
              byHost == {i \in 1..Len(hassData) :
                            Entry(i).host = parsed.host /\ Entry(i).port = parsed.port}
          IN  /\ byDevice # {} =>
                     /\ found.kind = "client"
                     /\ found.client.obj \in byDevice
              /\ (byDevice = {} /\ byName # {}) =>
                     /\ found.kind = "client"
                     /\ found.client = Entry(Min(byName)).client
              /\ (byDevice = {} /\ byName = {} /\ Truthy(host)) =>
                     /\ found.kind = "client"
                     /\ IF byHost # {}
                        THEN found.client \in {Entry(i).client : i \in byHost}
                        ELSE /\ found.client.obj \notin Entries
                             /\ found.client.host = parsed.host
                             /\ found.client.port = parsed.port
                     /\ host.v \in {<<"h">>, <<"g">>, <<"g", ":", "x">>} =>
                            /\ parsed.port = DEFAULT_PORT
                            /\ parsed.host = host.v
                     /\ host.v = <<"k", ":", "9">> =>
                            parsed = [host |-> <<"k">>, port |-> 9]
              /\ found.kind = "none" <=>
                     (byDevice = {} /\ byName = {} /\ ~Truthy(host))
      ]_vars

\* Both a device_id and a host were given, e1 is loaded: the device_id, the
\* name both entries have, decided, and the host of the unconfigured device
\* was not used.
C19_Witness ==
    /\ fn.name = "_get_client"
    /\ Get(fn.args[1], "device_id") = PyStr(<<"n">>)
    /\ Get(fn.args[1], "host") = PyStr(<<"k", ":", "9">>)
    /\ fn.result.kind = "client"
    /\ fn.result.client.obj = "e1"


\* ------------------------------------------------ properties of interleaving

\* C18: under every interleaving of notify_fixed and clear_fixed handlers on
\* one device, suspended at the request and at the save, no id is twice in
\* the registry, and the registry holds exactly the ids whose last successful
\* operation, in the order the handlers resumed, was a create: no add and no
\* remove is lost.
C18_OrderedSetUnderInterleaving ==
    \A i \in 1..Len(hassData) :
        LET ids == hassData[i].notification_ids
        IN  /\ Cardinality(Elements(ids)) = Len(ids)
            /\ Elements(ids) = created[hassData[i].entry_id]

\* A create and a clear of the same id are both suspended at their save, each
\* having changed the list while the other was between its awaits, and a
\* second id created before them is still there.
C18_Witness ==
    /\ Len(tasks) = 2
    /\ \A k \in 1..2 : tasks[k].pc = "save"
    /\ tasks[1].op = SERVICE_NOTIFY_FIXED
    /\ tasks[2].op = SERVICE_CLEAR_FIXED
    /\ Get(tasks[1].call, "id") = Get(tasks[2].call, "id")
    /\ Len(hassData[1].notification_ids) = 1


\* ------------------------------------------------- properties of the entities

\* Whether a request of the entity goes to the device.
ApiBacked(ent) ==
    ent.kind \in {"switch", "number"} \/ (ent.api_key # PyNone /\ ent.endpoint # PyNone)

\* C21: a request of a switch, a number or an API-backed select changes the
\* reported state to the requested value only when the client call returned
\* true, and leaves it as it was when the call returned false or raised; a
\* select without API key sends no request and takes the requested option.
C21_StateFollowsSuccess ==
    [][ /\ entity'.key = entity.key
        /\ IF ApiBacked(entity)
           THEN /\ last'.ret = "true" => entity'.state = entity'.asked
                /\ last'.ret # "true" => entity'.state = entity.state
                /\ last'.exc # "none" => last'.ret = "raise"
           ELSE /\ last'.nposts = 0
                /\ last'.ret = "n/a"
                /\ entity'.state = entity'.asked
      ]_vars

\* A number was asked for a value, the call raised, and the number still
\* reports another value.
C21_Witness ==
    /\ entity.kind = "number"
    /\ last.op = "async_set_native_value"
    /\ last.ret = "raise"
    /\ entity.asked = PyFloat(75)
    /\ entity.state # entity.asked


\* ------------------------------------------- properties of error handling

\* C22: when the client raises a connection error during a notify_fixed or
\* clear_fixed call, the handler's caller gets that error, and the registry,
\* the persisted list and the listeners are untouched: no id is added or
\* removed, nothing is saved and no listener is called.
C22_ConnectionErrorPropagates ==
    [][ (/\ last'.op \in {"notify_fixed", "clear_fixed"}
         /\ last'.raised = "TvOverlayConnectionError") =>
            /\ last'.ret = "raise"
            /\ last'.exc = "TvOverlayConnectionError"
            /\ hassData' = hassData
            /\ store' = store
            /\ ~last'.saved
            /\ ~last'.notified
      ]_vars

\* A notify_fixed call for a new id on a loaded entry that already holds an
\* id has ended with a connection error.
C22_Witness ==
    /\ last.op = "notify_fixed"
    /\ last.target = "entry"
    /\ last.raised = "TvOverlayConnectionError"
    /\ last.ret = "raise"
    /\ ~last.had
    /\ \E i \in 1..Len(hassData) :
           /\ hassData[i].notification_ids # <<>>
           /\ store[hassData[i].entry_id].ids = hassData[i].notification_ids

====
